---- MODULE Spec2Model ----
(***************************************************************************)
(* A model of libwyag.py: the repository layout (GitRepository, repo_path, *)
(* repo_file, repo_dir, repo_create, repo_find) and the object store       *)
(* (object_write, object_read) over an explicit file system.               *)
(*                                                                         *)
(* Bytes are their integer values.  A path is a sequence of segment        *)
(* strings below the file-system root <<>>.  The file system `fs` maps     *)
(* every existing path to a node, [kind |-> "dir"] or                      *)
(* [kind |-> "file", data |-> ...].  An operation's outcome carries        *)
(* err = "" on success and otherwise the name of the exception (for the    *)
(* built-in ones) or the message of the Exception the code raises.         *)
(***************************************************************************)
EXTENDS Integers, Sequences, FiniteSets, TLC

VARIABLES fs, out, find, procs, returned

vars == <<fs, out, find, procs, returned>>

(***************************************************************************)
(* Bytes and Python's sequence primitives                                  *)
(***************************************************************************)
NUL == 0
SP == 32
Plus == 43
Minus == 45
Digit0 == 48
Digit9 == 57
Underscore == 95
AsciiLimit == 128
HexBase == 16
DecBase == 10

\* Bind(v, F) names the value v for the expression F: LET v_name == v IN ...
Bind(v, F(_)) == F(v)

SetMin(S) == CHOOSE m \in S : \A k \in S : m <= k

\* A Python slice bound i normalised against a sequence of length n.
PyIdx(n, i) == IF i < 0 THEN (IF n + i < 0 THEN 0 ELSE n + i)
               ELSE (IF i > n THEN n ELSE i)

\* s[i:j]
PySlice(s, i, j) ==
    IF PyIdx(Len(s), i) >= PyIdx(Len(s), j) THEN <<>>
    ELSE SubSeq(s, PyIdx(Len(s), i) + 1, PyIdx(Len(s), j))

\* s[i:]
PySliceFrom(s, i) == PySlice(s, i, Len(s))

\* s.find(b, start): the lowest 0-based index >= start holding b, or -1.
PyFind(s, b, start) ==
    Bind({k \in PyIdx(Len(s), start) .. (Len(s) - 1) : s[k + 1] = b},
         LAMBDA hits : IF hits = {} THEN -1 ELSE SetMin(hits))

\* The whitespace str.strip() and int() remove.
IsSpace(b) == b \in ((9 .. 13) \cup (28 .. 32))

IsDigit(b) == b >= Digit0 /\ b <= Digit9

RECURSIVE LStrip(_)
LStrip(s) == IF s # <<>> /\ IsSpace(Head(s)) THEN LStrip(Tail(s)) ELSE s

RECURSIVE RStrip(_)
RStrip(s) == IF s # <<>> /\ IsSpace(s[Len(s)])
             THEN RStrip(SubSeq(s, 1, Len(s) - 1)) ELSE s

RECURSIVE DigitsValue(_, _)
DigitsValue(s, acc) ==
    IF s = <<>> THEN acc
    ELSE IF Head(s) = Underscore THEN DigitsValue(Tail(s), acc)
    ELSE DigitsValue(Tail(s), acc * DecBase + (Head(s) - Digit0))

\* A decimal literal of int(): digits, single underscores between them.
IsDecimal(d) ==
    /\ d # <<>>
    /\ \A i \in 1 .. Len(d) : IsDigit(d[i]) \/ d[i] = Underscore
    /\ IsDigit(d[1]) /\ IsDigit(d[Len(d)])
    /\ \A i \in 1 .. (Len(d) - 1) : ~(d[i] = Underscore /\ d[i + 1] = Underscore)

HasSign(t) == t # <<>> /\ Head(t) \in {Plus, Minus}

\* int() of the stripped text t
IntOfStripped(t) ==
    Bind(IF HasSign(t) THEN Tail(t) ELSE t,
         LAMBDA d :
           IF ~IsDecimal(d) THEN [err |-> "ValueError", val |-> 0]
           ELSE [err |-> "",
                 val |-> IF HasSign(t) /\ Head(t) = Minus
                         THEN 0 - DigitsValue(d, 0) ELSE DigitsValue(d, 0)])

\* int(bs.decode("ascii")): [err, val].
PyInt(bs) ==
    IF \E i \in 1 .. Len(bs) : bs[i] >= AsciiLimit
    THEN [err |-> "UnicodeDecodeError", val |-> 0]
    ELSE IntOfStripped(RStrip(LStrip(bs)))

\* str(n).encode() for n >= 0
RECURSIVE PyStr(_)
PyStr(n) == IF n < DecBase THEN <<Digit0 + n>>
            ELSE PyStr(n \div DecBase) \o <<Digit0 + (n % DecBase)>>

RECURSIVE Join(_)
Join(ss) == IF ss = <<>> THEN "" ELSE Head(ss) \o Join(Tail(ss))

(***************************************************************************)
(* The file system                                                         *)
(***************************************************************************)
DirNode == [kind |-> "dir"]
FileNode(data) == [kind |-> "file", data |-> data]

Exists(f, p) == p \in DOMAIN f
IsDir(f, p) == Exists(f, p) /\ f[p].kind = "dir"
IsFile(f, p) == Exists(f, p) /\ f[p].kind = "file"
Parent(p) == SubSeq(p, 1, Len(p) - 1)
Prefixes(p) == {SubSeq(p, 1, k) : k \in 0 .. Len(p)}
\* os.listdir(p)
ListDir(f, p) == {q \in DOMAIN f : Len(q) = Len(p) + 1 /\ Parent(q) = p}

Put(f, p, node) == [q \in (DOMAIN f) \cup {p} |-> IF q = p THEN node ELSE f[q]]

\* os.makedirs(p): creates p and its missing ancestors; [fs, err].
MakeDirs(f, p) ==
    IF Exists(f, p) THEN [fs |-> f, err |-> "FileExistsError"]
    ELSE IF \E q \in Prefixes(p) : IsFile(f, q)
         THEN [fs |-> f, err |-> "NotADirectoryError"]
    ELSE [fs |-> [q \in (DOMAIN f) \cup Prefixes(p) |->
                     IF q \in DOMAIN f THEN f[q] ELSE DirNode],
          err |-> ""]

\* open(p, "w") / open(p, "wb"): creates or truncates the file; [fs, err].
OpenTrunc(f, p) ==
    IF ~Exists(f, Parent(p)) THEN [fs |-> f, err |-> "FileNotFoundError"]
    ELSE IF ~IsDir(f, Parent(p)) THEN [fs |-> f, err |-> "NotADirectoryError"]
    ELSE IF IsDir(f, p) THEN [fs |-> f, err |-> "IsADirectoryError"]
    ELSE [fs |-> Put(f, p, FileNode(<<>>)), err |-> ""]

\* with open(p, "w") as f: f.write(data)
WriteFile(f, p, data) ==
    Bind(OpenTrunc(f, p),
         LAMBDA o : IF o.err # "" THEN o
                    ELSE [fs |-> Put(o.fs, p, FileNode(data)), err |-> ""])

(***************************************************************************)
(* configparser.ConfigParser: a parser object is the ordered list of its   *)
(* sections and of its (section, key, value) items; a config file is the   *)
(* list of its lines, a section header [section |-> s] or an assignment    *)
(* [key |-> k, val |-> v] whose value is a byte string.                    *)
(***************************************************************************)
EmptyConf == [sections |-> <<>>, items |-> <<>>]

HasSection(c, s) == \E i \in 1 .. Len(c.sections) : c.sections[i] = s

ConfAddSection(c, s) == [c EXCEPT !.sections = Append(@, s)]

ConfSet(c, s, k, v) ==
    IF \E i \in 1 .. Len(c.items) : c.items[i].section = s /\ c.items[i].key = k
    THEN [c EXCEPT !.items =
             [i \in 1 .. Len(@) |->
                 IF @[i].section = s /\ @[i].key = k
                 THEN [section |-> s, key |-> k, val |-> v] ELSE @[i]]]
    ELSE [c EXCEPT !.items = Append(@, [section |-> s, key |-> k, val |-> v])]

\* conf.get(s, k): [err, val]
ConfGet(c, s, k) ==
    IF ~HasSection(c, s) THEN [err |-> "NoSectionError", val |-> <<>>]
    ELSE Bind({i \in 1 .. Len(c.items) :
                  c.items[i].section = s /\ c.items[i].key = k},
              LAMBDA hit :
                IF hit = {} THEN [err |-> "NoOptionError", val |-> <<>>]
                ELSE [err |-> "", val |-> c.items[SetMin(hit)].val])

IsHeader(line) == "section" \in DOMAIN line

RECURSIVE SectionLines(_, _)
SectionLines(items, s) ==
    IF items = <<>> THEN <<>>
    ELSE (IF Head(items).section = s
          THEN <<[key |-> Head(items).key, val |-> Head(items).val]>>
          ELSE <<>>) \o SectionLines(Tail(items), s)

\* config.write(f): every section's header followed by its assignments.
RECURSIVE ConfWriteFrom(_, _)
ConfWriteFrom(c, i) ==
    IF i > Len(c.sections) THEN <<>>
    ELSE <<[section |-> c.sections[i]]>> \o SectionLines(c.items, c.sections[i])
         \o ConfWriteFrom(c, i + 1)

ConfWrite(c) == ConfWriteFrom(c, 1)

\* conf.read of a file's lines into parser c: [err, conf].  An assignment
\* before any section header is a MissingSectionHeaderError.
RECURSIVE ConfReadFrom(_, _, _, _)
ConfReadFrom(lines, i, cur, c) ==
    IF i > Len(lines) THEN [err |-> "", conf |-> c]
    ELSE IF IsHeader(lines[i])
         THEN IF HasSection(c, lines[i].section)
              THEN [err |-> "DuplicateSectionError", conf |-> c]
              ELSE ConfReadFrom(lines, i + 1, lines[i].section,
                                ConfAddSection(c, lines[i].section))
    ELSE IF cur = ""
         THEN [err |-> "MissingSectionHeaderError", conf |-> c]
    ELSE ConfReadFrom(lines, i + 1, cur,
                      ConfSet(c, cur, lines[i].key, lines[i].val))

ConfRead(lines) == ConfReadFrom(lines, 1, "", EmptyConf)

(***************************************************************************)
(* Path resolver: repo_path, repo_dir, repo_file                           *)
(***************************************************************************)
GitDirName == ".git"

repo_path(repo, segs) == repo.gitdir \o segs

\* repo_dir(repo, *segs, mkdir): [fs, err, none, path]; none is the None
\* return.
repo_dir(f, repo, segs, mkdir) ==
    Bind(repo_path(repo, segs),
         LAMBDA path :
           IF Exists(f, path)
           THEN IF IsDir(f, path)
                THEN [fs |-> f, err |-> "", none |-> FALSE, path |-> path]
                ELSE [fs |-> f, err |-> "Not a directory", none |-> TRUE, path |-> path]
           ELSE IF mkdir
                THEN Bind(MakeDirs(f, path),
                          LAMBDA m : [fs |-> m.fs, err |-> m.err,
                                      none |-> m.err # "", path |-> path])
                ELSE [fs |-> f, err |-> "", none |-> TRUE, path |-> path])

\* repo_file(repo, *segs, mkdir): resolves the parent, then joins the last
\* segment; None when the parent is absent and was not created.
repo_file(f, repo, segs, mkdir) ==
    Bind(repo_dir(f, repo, Parent(segs), mkdir),
         LAMBDA d : IF d.err # "" \/ d.none THEN [d EXCEPT !.none = TRUE]
                    ELSE [d EXCEPT !.path = repo_path(repo, segs)])

(***************************************************************************)
(* GitRepository.__init__(path, force): [err, repo]                        *)
(***************************************************************************)
\* self.worktree, self.gitdir and the empty parser of __init__
NewRepo(path) ==
    [worktree |-> path, gitdir |-> Append(path, GitDirName), conf |-> EmptyConf]

\* vers = int(self.conf.get("core", "repositoryformatversion")) and its test
VersionCheck(self) ==
    Bind(ConfGet(self.conf, "core", "repositoryformatversion"),
         LAMBDA v :
           IF v.err # "" THEN [err |-> v.err]
           ELSE Bind(PyInt(v.val),
                     LAMBDA vers :
                       IF vers.err # "" THEN [err |-> vers.err]
                       ELSE IF vers.val # 0
                            THEN [err |-> "Unsupported repositoryformatversion"]
                       ELSE [err |-> "", repo |-> self]))

\* self.conf.read([cf]): a file that cannot be opened (a directory) is
\* skipped; [err, conf]
ReadConfigFile(f, cf) ==
    IF IsFile(f, cf) THEN ConfRead(f[cf].data) ELSE [err |-> "", conf |-> EmptyConf]

\* The config part of __init__, cf being the outcome of repo_file.
LoadConfig(f, self, force, cf) ==
    IF cf.err # "" THEN [err |-> cf.err]
    ELSE IF ~cf.none /\ Exists(f, cf.path)
         THEN Bind(ReadConfigFile(f, cf.path),
                   LAMBDA rd :
                     IF rd.err # "" THEN [err |-> rd.err]
                     ELSE IF force
                          THEN [err |-> "", repo |-> [self EXCEPT !.conf = rd.conf]]
                     ELSE VersionCheck([self EXCEPT !.conf = rd.conf]))
    ELSE IF ~force THEN [err |-> "Configuration file is missing."]
    ELSE [err |-> "", repo |-> self]

GitRepository(f, path, force) ==
    IF ~(force \/ IsDir(f, Append(path, GitDirName)))
    THEN [err |-> "Not a Git repository"]
    ELSE LoadConfig(f, NewRepo(path), force,
                    repo_file(f, NewRepo(path), <<"config">>, FALSE))

(***************************************************************************)
(* repo_default_config and repo_create                                     *)
(***************************************************************************)
\* A default config that declares format version 1.
repo_default_config_V1 ==
    ConfSet(ConfSet(ConfSet(ConfAddSection(EmptyConf, "core"),
        "core", "repositoryformatversion", <<49>>),
        "core", "filemode", <<102, 97, 108, 115, 101>>),
        "core", "bare", <<102, 97, 108, 115, 101>>)

repo_default_config ==
    ConfSet(ConfSet(ConfSet(ConfAddSection(EmptyConf, "core"),
        "core", "repositoryformatversion", <<Digit0>>),
        "core", "filemode", <<102, 97, 108, 115, 101>>),
        "core", "bare", <<102, 97, 108, 115, 101>>)

DescriptionText ==
    <<[text |-> "Unnamed repository: edit this file 'description' to name the repository.\n"]>>

HeadText == <<[text |-> "ref: refs/heads/master\n"]>>

\* One repo_dir(repo, ..., mkdir=True) of repo_create, skipped once a step
\* has raised.
MkDirStep(st, repo, segs) ==
    IF st.err # "" THEN st
    ELSE Bind(repo_dir(st.fs, repo, segs, TRUE),
              LAMBDA d : [fs |-> d.fs, err |-> d.err])

\* with open(repo_file(repo, name), "w") as f: f.write(data)
WriteStep(st, repo, name, data) ==
    IF st.err # "" THEN st
    ELSE Bind(repo_file(st.fs, repo, <<name>>, FALSE),
              LAMBDA p :
                IF p.err # "" THEN [fs |-> st.fs, err |-> p.err]
                ELSE IF p.none THEN [fs |-> st.fs, err |-> "TypeError"]
                ELSE WriteFile(st.fs, p.path, data))

\* The worktree check of repo_create: [fs, err].
WorktreeCheck(f, path) ==
    IF Exists(f, path)
    THEN IF ~IsDir(f, path) THEN [fs |-> f, err |-> "is not a directory!"]
         ELSE IF ListDir(f, path) = {} THEN [fs |-> f, err |-> "is not empty"]
         ELSE [fs |-> f, err |-> ""]
    ELSE MakeDirs(f, path)

\* repo_create(path): [fs, err, repo]
\* The body of repo_create after the construction of repo: the worktree
\* check, the four directories, the three files; [fs, err].
CreateLayout(f, repo) ==
    WriteStep(
      WriteStep(
        WriteStep(
          MkDirStep(
            MkDirStep(
              MkDirStep(
                MkDirStep(WorktreeCheck(f, repo.worktree), repo, <<"branches">>),
                repo, <<"objects">>),
              repo, <<"refs", "tags">>),
            repo, <<"refs", "heads">>),
          repo, "description", DescriptionText),
        repo, "HEAD", HeadText),
      repo, "config", ConfWrite(repo_default_config))

repo_create(f, path) ==
    Bind(GitRepository(f, path, TRUE),
         LAMBDA r :
           IF r.err # "" THEN [fs |-> f, err |-> r.err]
           ELSE Bind(CreateLayout(f, r.repo),
                     LAMBDA s : IF s.err # "" THEN [fs |-> s.fs, err |-> s.err]
                                ELSE [fs |-> s.fs, err |-> "", repo |-> r.repo]))

(***************************************************************************)
(* The object store.  hashlib.sha1(..).hexdigest() is modelled as a        *)
(* collision-free digest: the hex characters of the encoded bytes in       *)
(* reverse order, so distinct encodings have distinct addresses and        *)
(* objects whose encodings share their last byte share a fan-out           *)
(* directory.  zlib.compress frames the bytes with the zlib header byte    *)
(* and an Adler checksum; zlib.decompress rejects anything else            *)
(* (an empty or truncated file included).                                  *)
(***************************************************************************)
HexDigits == <<"0", "1", "2", "3", "4", "5", "6", "7",
               "8", "9", "a", "b", "c", "d", "e", "f">>

HexByte(b) == <<HexDigits[(b \div HexBase) + 1], HexDigits[(b % HexBase) + 1]>>

RECURSIVE Sha1Hex(_)
Sha1Hex(bs) == IF bs = <<>> THEN <<>>
               ELSE Sha1Hex(Tail(bs)) \o HexByte(Head(bs))

ZlibHeader == 120
AdlerMod == 65521

RECURSIVE ByteSum(_)
ByteSum(bs) == IF bs = <<>> THEN 0 ELSE Head(bs) + ByteSum(Tail(bs))

Adler(bs) == (1 + ByteSum(bs)) % AdlerMod

\* zlib.compress(raw)
Compress(raw) == <<ZlibHeader>> \o raw \o <<Adler(raw)>>

\* zlib.decompress(data): [err, raw]
Decompress(data) ==
    IF /\ Len(data) >= 2
       /\ data[1] = ZlibHeader
       /\ data[Len(data)] = Adler(SubSeq(data, 2, Len(data) - 1))
    THEN [err |-> "", raw |-> SubSeq(data, 2, Len(data) - 1)]
    ELSE [err |-> "zlib.error", raw |-> <<>>]

FmtBlob == <<98, 108, 111, 98>>
FmtTree == <<116, 114, 101, 101>>
FmtCommit == <<99, 111, 109, 109, 105, 116>>
FmtTag == <<116, 97, 103>>

\* The object variants (GitBlob, GitTree, GitCommit, GitTag): an object is
\* its type token and its payload; construction from bytes keeps the bytes
\* and serialize returns them.
GitObject(fmt, data) == [fmt |-> fmt, data |-> data]

GitBlob(data) == GitObject(FmtBlob, data)

Serialize(obj) == obj.data

\* result = obj.fmt + b' ' + str(len(data)).encode() + b'\x00' + data
Encode(obj) ==
    Bind(Serialize(obj),
         LAMBDA data : obj.fmt \o <<SP>> \o PyStr(Len(data)) \o <<NUL>> \o data)

\* The storage path segments of a hash: objects/<sha[0:2]>/<sha[2:]>
ObjectSegs(sha) == <<"objects", Join(PySlice(sha, 0, 2)), Join(PySliceFrom(sha, 2))>>

\* Whether object_write looks for an existing file before it writes
\* (the code opens the file unconditionally).
WriteSkipsExisting == FALSE

\* object_write(obj, actually_write): [fs, err, sha, wrote]; wrote says
\* whether the file was opened for writing.
\* The persisting branch of object_write, p being the outcome of repo_file.
StoreObject(p, result, sha) ==
    IF p.err # ""
    THEN [fs |-> p.fs, err |-> p.err, sha |-> sha, wrote |-> FALSE]
    ELSE IF WriteSkipsExisting /\ Exists(p.fs, p.path)
    THEN [fs |-> p.fs, err |-> "", sha |-> sha, wrote |-> FALSE]
    ELSE Bind(WriteFile(p.fs, p.path, Compress(result)),
              LAMBDA w : [fs |-> w.fs, err |-> w.err, sha |-> sha,
                          wrote |-> w.err = ""])

object_write(f, repo, obj, actually_write) ==
    Bind(Encode(obj),
         LAMBDA result :
           Bind(Sha1Hex(result),
                LAMBDA sha :
                  IF ~actually_write
                  THEN [fs |-> f, err |-> "", sha |-> sha, wrote |-> FALSE]
                  ELSE StoreObject(repo_file(f, repo, ObjectSegs(sha), actually_write),
                                   result, sha)))

\* y = raw.find(b'\x00', x)
FindNul(raw, x) == PyFind(raw, NUL, x)

\* A payload slice that keeps the NUL terminator.
PayloadOf_FromNul(raw, y) == PySliceFrom(raw, y)

\* raw[y+1:], the payload handed to the constructor
PayloadOf(raw, y) == PySliceFrom(raw, y + 1)

\* The constructor choice of object_read: [err, fmt].  The message of the
\* unknown-type Exception decodes the token as ASCII first.
PickConstructor(fmt) ==
    IF fmt = FmtCommit THEN [err |-> "", fmt |-> FmtCommit]
    ELSE IF fmt = FmtTree THEN [err |-> "", fmt |-> FmtTree]
    ELSE IF fmt = FmtTag THEN [err |-> "", fmt |-> FmtTag]
    ELSE IF fmt = FmtBlob THEN [err |-> "", fmt |-> FmtBlob]
    ELSE IF \E i \in 1 .. Len(fmt) : fmt[i] >= AsciiLimit
         THEN [err |-> "UnicodeDecodeError", fmt |-> fmt]
    ELSE [err |-> "Unknown type", fmt |-> fmt]

\* The decoding of a decompressed record: [err, obj].
\* The size check and the constructor call, x and y being the positions
\* found.
DecodeAt(raw, x, y) ==
    Bind(PyInt(PySlice(raw, x, y)),
         LAMBDA size :
           IF size.err # "" THEN [err |-> size.err]
           ELSE IF size.val # Len(raw) - y - 1
                THEN [err |-> "Malformed object: bad length"]
           ELSE Bind(PickConstructor(PySlice(raw, 0, x)),
                     LAMBDA c :
                       IF c.err # "" THEN [err |-> c.err]
                       ELSE [err |-> "",
                             obj |-> GitObject(c.fmt, PayloadOf(raw, y))]))

DecodeRaw(raw) ==
    Bind(PyFind(raw, SP, 0), LAMBDA x : DecodeAt(raw, x, FindNul(raw, x)))

\* A read that asks the path resolver to create the fan-out directory.
ReadMkdir_Create == TRUE

\* The mkdir argument of object_read's repo_file call (its default).
ReadMkdir == FALSE

\* object_read(repo, sha): [fs, err, obj]
\* raw = zlib.decompress(f.read()) and the decoding of raw; [err, obj]
ReadData(data) ==
    Bind(Decompress(data),
         LAMBDA z : IF z.err # "" THEN [err |-> z.err] ELSE DecodeRaw(z.raw))

\* open(path, "rb") and what follows, p being the outcome of repo_file.
OpenAndRead(p) ==
    IF p.err # "" THEN [fs |-> p.fs, err |-> p.err]
    ELSE IF p.none THEN [fs |-> p.fs, err |-> "TypeError"]
    ELSE IF ~Exists(p.fs, p.path) THEN [fs |-> p.fs, err |-> "FileNotFoundError"]
    ELSE IF IsDir(p.fs, p.path) THEN [fs |-> p.fs, err |-> "IsADirectoryError"]
    ELSE Bind(ReadData(p.fs[p.path].data),
              LAMBDA d : IF d.err # "" THEN [fs |-> p.fs, err |-> d.err]
                         ELSE [fs |-> p.fs, err |-> "", obj |-> d.obj])

object_read(f, repo, sha) ==
    OpenAndRead(repo_file(f, repo, ObjectSegs(sha), ReadMkdir))

(***************************************************************************)
(* Bounds and input sets                                                   *)
(***************************************************************************)
MaxPayload == 2
MaxObjects == 1
MaxTail == 4

SeqsUpTo(S, n) == UNION {[1 .. k -> S] : k \in 0 .. n}

\* Payloads written: the two bytes the framing itself uses.
PayloadBytes == {NUL, SP}
Payloads == SeqsUpTo(PayloadBytes, MaxPayload)

\* Stored records read back: a token followed by arbitrary bytes.
Tokens == {FmtBlob, FmtTree, FmtCommit, FmtTag, <<120>>, <<255>>, <<>>}
TailBytes == {NUL, SP, Digit0, 49, 54}
Records == {t \o u : t \in Tokens, u \in SeqsUpTo(TailBytes, MaxTail)}

RootFs == [p \in {<<>>} |-> DirNode]

\* The repository the store operations run in: the one repo_create makes
\* at the absent path w.
StoreCreate == repo_create(RootFs, <<"w">>)
StoreRepo == StoreCreate.repo

Idle == [op |-> "idle"]
NoFind == [pc |-> "idle"]

ObjectFiles(f) == {p \in DOMAIN f : Len(p) = 5 /\ p[3] = "objects" /\ IsFile(f, p)}

(***************************************************************************)
(* Spec: sequential writes and reads of blobs in an initialized repository *)
(***************************************************************************)
Init ==
    /\ fs = StoreCreate.fs
    /\ out = Idle
    /\ find = NoFind
    /\ procs = <<>>
    /\ returned = {}

Write(P, persist) ==
    \E obj \in {GitBlob(P)} :
    \E path \in {repo_path(StoreRepo, ObjectSegs(Sha1Hex(Encode(obj))))} :
    \E w \in {object_write(fs, StoreRepo, obj, persist)} :
       /\ persist => (Exists(fs, path) \/ Cardinality(ObjectFiles(fs)) < MaxObjects)
       /\ fs' = w.fs
       /\ out' = [op |-> "write", obj |-> obj, persist |-> persist, err |-> w.err,
                  sha |-> w.sha, wrote |-> w.wrote, existed |-> Exists(fs, path),
                  same |-> (Exists(fs, path) /\ w.fs[path] = fs[path])]
       /\ returned' = IF persist /\ w.err = ""
                      THEN returned \cup {[sha |-> w.sha, obj |-> obj]}
                      ELSE returned
       /\ UNCHANGED <<find, procs>>

Read(sha) ==
    \E path \in {repo_path(StoreRepo, ObjectSegs(sha))} :
    \E r \in {object_read(fs, StoreRepo, sha)} :
       /\ fs' = r.fs
       /\ out' = [op |-> "read", sha |-> sha, res |-> [r EXCEPT !.fs = <<>>],
                  stored |-> IF IsFile(fs, path) THEN fs[path].data ELSE <<>>,
                  dirPresent |-> Exists(fs, Parent(path)),
                  filePresent |-> Exists(fs, path),
                  changed |-> r.fs # fs]
       /\ UNCHANGED <<find, procs, returned>>

Next ==
    \/ \E P \in Payloads, persist \in BOOLEAN : Write(P, persist)
    \/ \E P \in Payloads : Read(Sha1Hex(Encode(GitBlob(P))))

Spec == Init /\ [][Next]_vars

(***************************************************************************)
(* SpecRead: an initialized repository whose store holds one record,       *)
(* well-formed or not, at the record's address; the record is read back.   *)
(***************************************************************************)
\* The store with record raw compressed at the address of raw.
StoreRecord(f, raw) ==
    Bind(repo_file(f, StoreRepo, ObjectSegs(Sha1Hex(raw)), TRUE),
         LAMBDA p : WriteFile(p.fs, p.path, Compress(raw)).fs)

InitRead ==
    /\ \E raw \in Records :
          /\ fs = StoreRecord(StoreCreate.fs, raw)
          /\ returned = {[sha |-> Sha1Hex(raw), raw |-> raw]}
    /\ out = Idle
    /\ find = NoFind
    /\ procs = <<>>

ReadStored == \E w \in returned : Read(w.sha)

NextRead == ReadStored

SpecRead == InitRead /\ [][NextRead]_vars

(***************************************************************************)
(* Claims about the object store                                           *)
(***************************************************************************)
\* C1: reading the hash a persisting write of Blob(P) returned yields a
\* Blob whose payload is exactly P.
C1_RoundTrip ==
    out.op = "read" =>
      \A w \in returned :
        w.sha = out.sha => out.res.err = "" /\ out.res.obj = w.obj

C1_Witness ==
    /\ out.op = "read"
    /\ \E w \in returned :
         /\ w.sha = out.sha
         /\ Len(w.obj.data) = MaxPayload
         /\ \E i \in 1 .. Len(w.obj.data) : w.obj.data[i] = NUL
         /\ \E i \in 1 .. Len(w.obj.data) : w.obj.data[i] = SP

\* C2: a persisting write of an object whose file already exists returns
\* the same hash, performs no disk write and leaves the stored file as the
\* first write left it.
C2_WriteIdempotent ==
    (out.op = "write" /\ out.persist /\ out.existed) =>
      /\ out.err = ""
      /\ \E w \in returned : w.obj = out.obj /\ w.sha = out.sha
      /\ out.same
      /\ ~out.wrote

\* The failures of a read whose object file is not there: open(None) when
\* the fan-out directory is absent, open of a missing file when it exists.
ObjectNotFound == {"TypeError", "FileNotFoundError"}

StoredRaw == Decompress(out.stored).raw

\* The type token of a record: the bytes before its first space.
TokenOf(raw) == PySlice(raw, 0, PyFind(raw, SP, 0))

\* A record is well framed when a NUL follows the length field that starts
\* at the first space, and the field's value is the number of bytes after
\* that NUL.
WellFramed(raw) ==
    \E x \in 1 .. Len(raw) : \E y \in (x + 1) .. Len(raw) :
        /\ raw[x] = SP
        /\ \A i \in 1 .. (x - 1) : raw[i] # SP
        /\ raw[y] = NUL
        /\ \A i \in (x + 1) .. (y - 1) : raw[i] # NUL
        /\ PyInt(SubSeq(raw, x + 1, y - 1)).err = ""
        /\ PyInt(SubSeq(raw, x + 1, y - 1)).val = Len(raw) - y

CorruptObject == {"Malformed object: bad length", "ValueError", "UnicodeDecodeError"}

\* C5: a read returns an object only if the stored record is well framed,
\* and fails with CorruptObject on every record that is not.
C5_CorruptionDetected ==
    (out.op = "read" /\ out.filePresent) =>
      /\ out.res.err = "" => WellFramed(StoredRaw)
      /\ ~WellFramed(StoredRaw) => out.res.err \in CorruptObject

KnownTokens == {FmtBlob, FmtTree, FmtCommit, FmtTag}

\* C6: a well-framed record whose token is none of the four fails with the
\* unknown-type error and yields no object; one of the four tokens yields
\* the object of that variant.
C6_ClosedTypes ==
    (out.op = "read" /\ out.filePresent /\ WellFramed(StoredRaw)) =>
      IF TokenOf(StoredRaw) \in KnownTokens
      THEN out.res.err = "" /\ out.res.obj.fmt = TokenOf(StoredRaw)
      ELSE out.res.err = "Unknown type"

(***************************************************************************)
(* SpecRepo: repository creation, construction and discovery over a file   *)
(* system that the environment populates.                                  *)
(***************************************************************************)
MaxStart == 3

Worktrees == {<<"a">>, <<"a", "a">>}

\* realpath of a path without symbolic links: ".." segments are resolved,
\* and the parent of the root is the root.
RECURSIVE Normalize(_, _)
Normalize(p, acc) ==
    IF p = <<>> THEN acc
    ELSE IF Head(p) = ".." THEN Normalize(Tail(p), Parent(acc))
    ELSE Normalize(Tail(p), Append(acc, Head(p)))

Realpath(p) == Normalize(p, <<>>)

\* A search that climbs two levels at a time.
FindParent_Skip(path) == Realpath(path \o <<"..", "..">>)

\* parent = os.path.realpath(os.path.join(path, ".."))
FindParent(path) == Realpath(Append(path, ".."))

\* One round of repo_find at canonical path `path`: [done, res, path].
FindRound(f, path, required) ==
    IF IsDir(f, Append(path, GitDirName))
    THEN [done |-> TRUE, res |-> GitRepository(f, path, FALSE), path |-> path]
    ELSE IF FindParent(path) = path
         THEN [done |-> TRUE,
               res |-> IF required THEN [err |-> "No git directory."]
                       ELSE [err |-> "", none |-> TRUE],
               path |-> path]
    ELSE [done |-> FALSE, res |-> [err |-> ""], path |-> FindParent(path)]

StartPaths == SeqsUpTo({"a", ".."}, MaxStart)

VersionLine(v) == [key |-> "repositoryformatversion", val |-> v]

\* The config files the environment may leave in a metadata directory.
ConfigFiles ==
    { ConfWrite(repo_default_config),
      <<[section |-> "core"], VersionLine(<<50>>)>>,
      <<[section |-> "core"], VersionLine(<<120>>)>>,
      <<[section |-> "core"]>>,
      <<>>,
      <<VersionLine(<<Digit0>>)>> }

EnvDirs == Worktrees \cup {Append(w, GitDirName) : w \in Worktrees}
EnvFiles == {<<"a">>, <<"a", "f">>} \cup {Append(w, GitDirName) : w \in Worktrees}

InitRepo ==
    /\ fs = RootFs
    /\ out = Idle
    /\ find = NoFind
    /\ procs = <<>>
    /\ returned = {}

EnvMkdir(p) ==
    /\ find.pc = "idle"
    /\ IsDir(fs, Parent(p)) /\ ~Exists(fs, p)
    /\ fs' = Put(fs, p, DirNode)
    /\ out' = Idle
    /\ UNCHANGED <<find, procs, returned>>

EnvMkFile(p) ==
    /\ find.pc = "idle"
    /\ IsDir(fs, Parent(p)) /\ ~Exists(fs, p)
    /\ fs' = Put(fs, p, FileNode(<<>>))
    /\ out' = Idle
    /\ UNCHANGED <<find, procs, returned>>

EnvWriteConfig(w, lines) ==
    /\ find.pc = "idle"
    /\ IsDir(fs, Append(w, GitDirName))
    /\ ~Exists(fs, w \o <<GitDirName, "config">>)
    /\ fs' = Put(fs, w \o <<GitDirName, "config">>, FileNode(lines))
    /\ out' = Idle
    /\ UNCHANGED <<find, procs, returned>>

\* What repo_create finds at its path.
PathState(f, p) ==
    IF IsDir(f, p) THEN (IF ListDir(f, p) = {} THEN "empty" ELSE "nonempty")
    ELSE IF Exists(f, p) THEN "file"
    ELSE IF \E q \in Prefixes(p) : IsFile(f, q) THEN "blocked"
    ELSE "absent"

RepoCreate(p) ==
    /\ find.pc = "idle"
    /\ \E r \in {repo_create(fs, p)} :
         /\ fs' = r.fs
         /\ out' = [op |-> "repo_create", path |-> p, pre |-> PathState(fs, p),
                    err |-> r.err, changed |-> r.fs # fs]
    /\ UNCHANGED <<find, procs, returned>>

Construct(p, force) ==
    /\ find.pc = "idle"
    /\ out' = [op |-> "GitRepository", path |-> p, force |-> force,
               res |-> GitRepository(fs, p, force)]
    /\ UNCHANGED <<fs, find, procs, returned>>

FindStart(start, required) ==
    /\ find.pc = "idle"
    /\ find' = [pc |-> "run", start |-> start, required |-> required,
                path |-> Realpath(start), rounds |-> 0]
    /\ out' = Idle
    /\ UNCHANGED <<fs, procs, returned>>

FindStep ==
    /\ find.pc = "run"
    /\ \E r \in {FindRound(fs, find.path, find.required)} :
         IF r.done
         THEN /\ out' = [op |-> "repo_find", start |-> find.start,
                         required |-> find.required, at |-> r.path,
                         res |-> r.res, rounds |-> find.rounds + 1]
              /\ find' = NoFind
         ELSE /\ find' = [find EXCEPT !.path = r.path, !.rounds = @ + 1]
              /\ out' = out
    /\ UNCHANGED <<fs, procs, returned>>

NextRepo ==
    \/ \E p \in EnvDirs : EnvMkdir(p)
    \/ \E p \in EnvFiles : EnvMkFile(p)
    \/ \E w \in Worktrees, lines \in ConfigFiles : EnvWriteConfig(w, lines)
    \/ \E p \in Worktrees : RepoCreate(p)
    \/ \E p \in Worktrees, force \in BOOLEAN : Construct(p, force)
    \/ \E start \in StartPaths, required \in BOOLEAN : FindStart(start, required)
    \/ FindStep

SpecRepo == InitRepo /\ [][NextRepo]_vars

(***************************************************************************)
(* Claims about repository creation, construction and discovery            *)
(***************************************************************************)
\* C3: repo_create is accepted exactly on an absent path or an empty
\* directory; a non-empty directory fails with TargetNotEmpty, a
\* non-directory with NotADirectory, and neither failure touches the disk.
C3_InitPreconditions ==
    (out.op = "repo_create" /\ out.pre # "blocked") =>
      /\ out.err = "" <=> out.pre \in {"absent", "empty"}
      /\ out.pre = "nonempty" => out.err = "is not empty"
      /\ out.pre = "file" => out.err = "is not a directory!"
      /\ out.pre \in {"nonempty", "file"} => ~out.changed

LayoutDirs == {<<"branches">>, <<"objects">>, <<"refs">>, <<"refs", "heads">>,
               <<"refs", "tags">>}
LayoutFiles == {<<"description">>, <<"HEAD">>, <<"config">>}

\* The paths below directory g, relative to g.
Below(f, g) ==
    {SubSeq(q, Len(g) + 1, Len(q)) :
        q \in {q \in DOMAIN f : Len(q) > Len(g) /\ SubSeq(q, 1, Len(g)) = g}}

\* The value of a key of section core in the config file at cfg, as the
\* parser reads it.
CoreValue(f, cfg, key) == ConfGet(ConfRead(f[cfg].data).conf, "core", key)

VersionIsZero(f, cfg) ==
    /\ IsFile(f, cfg)
    /\ ConfRead(f[cfg].data).err = ""
    /\ CoreValue(f, cfg, "repositoryformatversion").err = ""
    /\ PyInt(CoreValue(f, cfg, "repositoryformatversion").val) = [err |-> "", val |-> 0]

\* A repository can be constructed at w without bypass.
Constructible(f, w) ==
    /\ IsDir(f, Append(w, ".git"))
    /\ Exists(f, w \o <<".git", "config">>)
    /\ VersionIsZero(f, w \o <<".git", "config">>)

UnsupportedFormatVersion ==
    {"Unsupported repositoryformatversion", "ValueError", "NoSectionError",
     "NoOptionError", "MissingSectionHeaderError"}

\* C8: without force, construction succeeds exactly when the metadata
\* directory and its config exist and the version is 0, and fails with the
\* matching error otherwise; with force it never fails.
C8_ConstructionGate ==
    out.op = "GitRepository" =>
      IF out.force THEN out.res.err = ""
      ELSE /\ out.res.err = "" <=> Constructible(fs, out.path)
           /\ ~IsDir(fs, Append(out.path, ".git"))
                 => out.res.err = "Not a Git repository"
           /\ (IsDir(fs, Append(out.path, ".git"))
               /\ ~Exists(fs, out.path \o <<".git", "config">>))
                 => out.res.err = "Configuration file is missing."
           /\ (IsDir(fs, Append(out.path, ".git"))
               /\ Exists(fs, out.path \o <<".git", "config">>)
               /\ ~VersionIsZero(fs, out.path \o <<".git", "config">>))
                 => out.res.err \in UnsupportedFormatVersion

HasRepoAbove(f, p) == \E q \in Prefixes(p) : IsDir(f, Append(q, ".git"))

\* The nearest directory, among p and its ancestors, that holds a metadata
\* directory.
NearestRepo(f, p) ==
    CHOOSE q \in Prefixes(p) :
        /\ IsDir(f, Append(q, ".git"))
        /\ \A r \in Prefixes(p) : IsDir(f, Append(r, ".git")) => Len(r) <= Len(q)

\* What repo_find does when no directory up to the root holds a metadata
\* directory.
NotFoundOutcome ==
    IF out.required THEN out.res = [err |-> "No git directory."]
    ELSE out.res = [err |-> "", none |-> TRUE]

\* C7 as stated: repo_find returns the Repository at the nearest directory
\* holding a metadata directory, and fails or returns absent when there is
\* none.
C7_FindReturnsNearest ==
    out.op = "repo_find" =>
      IF HasRepoAbove(fs, Realpath(out.start))
      THEN /\ out.res.err = ""
           /\ "repo" \in DOMAIN out.res
           /\ out.res.repo.worktree = NearestRepo(fs, Realpath(out.start))
      ELSE NotFoundOutcome

\* C7 amended: repo_find stops within depth + 1 rounds at the nearest
\* directory holding a metadata directory and constructs the Repository
\* there without bypass: it returns it when that construction succeeds and
\* fails with the construction's error otherwise, never looking further up.
C7_FindConstructsNearest ==
    /\ find.pc = "run" =>
          find.rounds + Len(find.path) = Len(Realpath(find.start))
    /\ out.op = "repo_find" =>
         /\ out.rounds <= Len(Realpath(out.start)) + 1
         /\ IF HasRepoAbove(fs, Realpath(out.start))
            THEN /\ out.at = NearestRepo(fs, Realpath(out.start))
                 /\ out.res.err = "" <=> Constructible(fs, out.at)
                 /\ out.res.err = "" =>
                      ("repo" \in DOMAIN out.res /\ out.res.repo.worktree = out.at)
                 /\ out.res.err # "No git directory."
            ELSE NotFoundOutcome

C7_Witness ==
    /\ out.op = "repo_find"
    /\ out.res.err = ""
    /\ "repo" \in DOMAIN out.res
    /\ Len(Realpath(out.start)) >= Len(out.res.repo.worktree) + 2

(***************************************************************************)
(* SpecConc: two writers and a reader on one repository, one system call   *)
(* of object_write or object_read per step.  A writer resolves the fan-out *)
(* directory (os.path.exists, then os.makedirs), opens the object file     *)
(* with "wb", which truncates it, and then writes and closes it; a reader  *)
(* resolves the directory and then opens and reads the file.               *)
(***************************************************************************)
Writers == {"w1", "w2"}
Readers == {"r1"}

\* The objects the processes write and read: two blobs in one fan-out
\* directory.
ConcPayloads == {<<>>, <<NUL>>}

ObjectPath(sha) == repo_path(StoreRepo, ObjectSegs(sha))

InitConc ==
    /\ fs = StoreCreate.fs
    /\ out = Idle
    /\ find = NoFind
    /\ procs = [p \in Writers \cup Readers |-> [pc |-> "idle"]]
    /\ returned = {}

\* data = obj.serialize(); result = ...; sha = hashlib.sha1(result)
WBegin(w, P) ==
    /\ procs[w].pc = "idle"
    /\ procs' = [procs EXCEPT ![w] =
          [pc |-> "resolve", obj |-> GitBlob(P), sha |-> Sha1Hex(Encode(GitBlob(P))),
           err |-> ""]]
    /\ UNCHANGED <<fs, out, find, returned>>

\* repo_dir: os.path.exists / os.path.isdir of the fan-out directory
WResolve(w) ==
    /\ procs[w].pc = "resolve"
    /\ procs' = [procs EXCEPT ![w].pc =
          IF IsDir(fs, Parent(ObjectPath(procs[w].sha))) THEN "open" ELSE "mkdir"]
    /\ UNCHANGED <<fs, out, find, returned>>

\* repo_dir: os.makedirs of the fan-out directory
WMkdir(w) ==
    /\ procs[w].pc = "mkdir"
    /\ \E m \in {MakeDirs(fs, Parent(ObjectPath(procs[w].sha)))} :
         /\ fs' = m.fs
         /\ procs' = [procs EXCEPT ![w] =
               IF m.err = "" THEN [@ EXCEPT !.pc = "open"]
               ELSE [pc |-> "idle", err |-> m.err]]
    /\ UNCHANGED <<out, find, returned>>

\* open(path, 'wb')
WOpen(w) ==
    /\ procs[w].pc = "open"
    /\ fs' = OpenTrunc(fs, ObjectPath(procs[w].sha)).fs
    /\ procs' = [procs EXCEPT ![w].pc = "write"]
    /\ UNCHANGED <<out, find, returned>>

\* f.write(zlib.compress(result)), the close, and return sha
WWrite(w) ==
    /\ procs[w].pc = "write"
    /\ fs' = Put(fs, ObjectPath(procs[w].sha),
                 FileNode(Compress(Encode(procs[w].obj))))
    /\ returned' = returned \cup {[sha |-> procs[w].sha, obj |-> procs[w].obj]}
    /\ procs' = [procs EXCEPT ![w] = [pc |-> "idle", err |-> ""]]
    /\ UNCHANGED <<out, find>>

\* object_read(repo, sha) is called; `after` says that a write of the
\* object had returned this hash before the call.
RBegin(r, P) ==
    /\ procs[r].pc \in {"idle", "done"}
    /\ procs' = [procs EXCEPT ![r] =
          [pc |-> "resolve", sha |-> Sha1Hex(Encode(GitBlob(P))),
           after |-> \E w \in returned : w.sha = Sha1Hex(Encode(GitBlob(P)))]]
    /\ UNCHANGED <<fs, out, find, returned>>

\* repo_file: None when the fan-out directory is absent
RResolve(r) ==
    /\ procs[r].pc = "resolve"
    /\ procs' = [procs EXCEPT ![r] =
          IF IsDir(fs, Parent(ObjectPath(procs[r].sha)))
          THEN [@ EXCEPT !.pc = "open"]
          ELSE [pc |-> "done", sha |-> @.sha, after |-> @.after, quiet |-> TRUE,
                res |-> [err |-> "TypeError"]]]
    /\ UNCHANGED <<fs, out, find, returned>>

\* A writer is between its open and its write of the file at path.
WriteInProgress(path) ==
    \E w \in Writers : procs[w].pc = "write" /\ ObjectPath(procs[w].sha) = path

\* open(path, "rb"), f.read() and the decoding
RRead(r) ==
    /\ procs[r].pc = "open"
    /\ procs' = [procs EXCEPT ![r] =
          [pc |-> "done", sha |-> @.sha, after |-> @.after,
           quiet |-> ~WriteInProgress(ObjectPath(@.sha)),
           res |-> IF ~Exists(fs, ObjectPath(@.sha))
                   THEN [err |-> "FileNotFoundError"]
                   ELSE ReadData(fs[ObjectPath(@.sha)].data)]]
    /\ UNCHANGED <<fs, out, find, returned>>

NextConc ==
    \/ \E w \in Writers, P \in ConcPayloads : WBegin(w, P)
    \/ \E w \in Writers : WResolve(w)
    \/ \E w \in Writers : WMkdir(w)
    \/ \E w \in Writers : WOpen(w)
    \/ \E w \in Writers : WWrite(w)
    \/ \E r \in Readers, P \in ConcPayloads : RBegin(r, P)
    \/ \E r \in Readers : RResolve(r)
    \/ \E r \in Readers : RRead(r)

SpecConc == InitConc /\ [][NextConc]_vars

\* A writer of another object never has a returned object's file as its
\* target.
DifferentBytesApart ==
    \A w \in Writers : \A o \in returned :
        (procs[w].pc \in {"resolve", "mkdir", "open", "write"} /\ procs[w].obj # o.obj)
            => ObjectPath(procs[w].sha) # ObjectPath(o.sha)

\* C10 as stated: once a write of O has returned h, every read of h returns
\* O, a read that overlaps a later write of O included, and a write of
\* other bytes never touches O's file.
C10_ReadAfterWrite ==
    /\ \A r \in Readers :
          (procs[r].pc = "done" /\ procs[r].after) =>
              /\ procs[r].res.err = ""
              /\ [sha |-> procs[r].sha, obj |-> procs[r].res.obj] \in returned
    /\ DifferentBytesApart

====
